---- MODULE Spec2Model ----
(***************************************************************************)
(* fscache: a filesystem cache with LRU garbage collection based on atime. *)
(*                                                                         *)
(* The state is the cache directory (cache/<key>, tmp/<key>) as the kernel *)
(* presents it, the caller threads running Set / Get / GetBytes / Has /    *)
(* Del against it, and the gc goroutine.  Every action is one system call  *)
(* of the Go code together with the statements around it that touch        *)
(* nothing shared.                                                         *)
(*                                                                         *)
(* Environment: the system calls of the writer (atomicWriteFile) may fail  *)
(* for reasons outside the program (disk full, EINTR, ...); the other      *)
(* system calls fail only as the state of the directory dictates (ENOENT,  *)
(* EEXIST).  Keys are plain file names.  Access times change by creation   *)
(* and by os.Chtimes only (a noatime mount).                               *)
(*                                                                         *)
(* Two implementations live in the repository: Cache (gc walks cache/ on   *)
(* every cycle) and the older FsCache (curBytes and the heap are built     *)
(* once, by init; gc runs under gc.lock; there is a Del).                  *)
(*                                                                         *)
(* Specifications.  Spec: two caller threads race on one key while the gc  *)
(* goroutine runs, and any call of the writer may fail; the clock stands   *)
(* still.  SpecGc: one call at a time, on every key, between gc cycles,    *)
(* with the clock running and no failing call.  SpecRace: as Spec, with    *)
(* the clock running, no failing call and no Del.  SpecNew: New with its   *)
(* options, and gcRunner with its ticker and its stop channel.  SpecFs:    *)
(* two processes run FsCache on one directory that already holds entries.  *)
(* SpecMp: two processes run Cache on one directory.                       *)
(***************************************************************************)
EXTENDS Integers, Sequences, FiniteSets, TLC

\* ------------------------------------------------------------- bounds
NKeys == 2
MaxLen == 2
MaxTime == 1

\* maxBytes of the cache (WithMaxBytes), in the unit the values are sized in
maxBytes == 1

Keys == 1..NKeys
\* the caller threads
Procs == {1, 2}

\* randBytes(n): the value of length n; no value is a prefix of another
Val(n) == [i \in 1..n |-> n]
Vals == {Val(n) : n \in 1..MaxLen}
\* the dst slice handed to Get: one that already holds a byte, so that appending
\* to it, replacing it and returning it as it was all differ
Dsts == {<<0>>}

\* ------------------------------------------------------------- paths
filepath(key) == <<"cache", key>>
\* (had the staging file been the destination itself)
tmppathInPlace(key) == <<"cache", key>>
tmppath(key) == <<"tmp", key>>
Paths == {filepath(k) : k \in Keys} \cup {tmppath(k) : k \in Keys}

\* ------------------------------------------------------------- state
VARIABLES
    files,      \* the directory tree: path -> inode (data, atime, mtime) or NoFile
    now,        \* time.Now()
    pc,         \* where each caller thread stands
    op,         \* the method the thread runs (or ran last)
    key,        \* its key argument
    src,        \* Set: the src argument
    dst,        \* Get: the dst argument
    fd,         \* the open file of the thread (w.f, or the file ReadFile opened)
    off,        \* Set: the bytes of src that io.Copy has written so far
    writeErr,   \* atomicFileWriter.writeErr (TRUE: not nil)
    buf,        \* Get: the bytes ReadFile returned (src in Cache.Get)
    fi,         \* Get: the ModTime of the FileInfo os.Stat returned
    ret,        \* what the last finished call returned
    committed,  \* history, per key: a rename onto cache/<key> has executed
    touched,    \* history: this Set call changed what is at cache/<key>
    lastOk,     \* history, per key: the v of the last Set(key, v) that returned nil,
                \* if the key has not been removed since (<< >>: there is none)
    clean,      \* history: since this Get began no Set of its key has returned nil
                \* and its key has not been removed
    gcpc,       \* where the gc goroutine stands
    names,      \* gc: the names filepath.Walk has read and not yet visited
    curBytes,   \* gc: curBytes
    fih,        \* gc: f.fih, the heap of os.FileInfo (name, size, atime)
    keysToGc,   \* gc: the keys popped and not yet removed
    quiet,      \* history: the entries the running (or last) gc cycle began with,
                \* for as long as no caller has taken a step since it began
    bytesSoFar, \* gc: bytesSoFar (FsCache.gc reads it after the removals)
    opts,       \* the values New was given by WithMaxBytes ({}: no such option)
    runner,     \* gcRunner: "none" (never started), "loop", "exited"
    tickerC,    \* gcRunner: a tick waits in ticker.C
    gcStopCh,   \* gcStopCh is closed
    gcFlock,    \* gc.lock: "free", "mine", "theirs"
    peer,       \* the gc goroutine of the other process on the same directory
    seen,       \* history: the entries as the running gc cycle scanned them
    ran         \* history: the last gc cycle that ended removed all it had decided
                \* to, and no caller has taken a step since it began

gcvars == <<gcpc, names, curBytes, fih, keysToGc, bytesSoFar>>

\* what New leaves behind: the options, the runner, its channels, the lock, and
\* the other process
newvars == <<opts, runner, tickerC, gcStopCh, gcFlock, peer>>

vars == <<files, now, pc, op, key, src, dst, fd, off, writeErr, buf, fi, ret,
          committed, touched, lastOk, clean, gcpc, names, curBytes, fih, keysToGc,
          quiet, bytesSoFar, opts, runner, tickerC, gcStopCh, gcFlock, peer, seen,
          ran>>

NoFile == [none |-> TRUE]
NoFd == [closed |-> TRUE]
NoRet == [none |-> TRUE]
NoQuiet == << >>

IsFile(f) == f # NoFile
Live(path) == [path |-> path]
Detached(data) == [data |-> data]
IsLive(d) == "path" \in DOMAIN d

\* os.Stat(path) succeeds
Exists(path) == IsFile(files[path])

\* math.MaxInt64, the default of Cache.maxBytes: above every sum of file sizes
\* (the largest integer the checker has stands for it)
MaxInt64 == 2147483647

\* f.maxBytes after New has applied the options o
maxBytesOf(o) == IF o = {} THEN MaxInt64 ELSE CHOOSE b \in o : TRUE

\* f.maxBytes
fmaxBytes == maxBytesOf(opts)

\* a gc goroutine between two cycles
IdleGc ==
    [gcpc |-> "idle", names |-> << >>, curBytes |-> 0, fih |-> << >>,
     keysToGc |-> << >>, bytesSoFar |-> 0]

\* no call has been made yet
Idle ==
    /\ pc = [p \in Procs |-> "idle"]
    /\ op = [p \in Procs |-> "none"]
    /\ key = [p \in Procs |-> 1]
    /\ src = [p \in Procs |-> << >>]
    /\ dst = [p \in Procs |-> <<0>>]
    /\ fd = [p \in Procs |-> NoFd]
    /\ off = [p \in Procs |-> 0]
    /\ writeErr = [p \in Procs |-> FALSE]
    /\ buf = [p \in Procs |-> << >>]
    /\ fi = [p \in Procs |-> 0]
    /\ ret = [p \in Procs |-> NoRet]
    /\ touched = [p \in Procs |-> FALSE]
    /\ lastOk = [k \in Keys |-> << >>]
    /\ clean = [p \in Procs |-> FALSE]
    /\ quiet = NoQuiet
    /\ seen = [k \in Keys |-> NoFile]
    /\ ran = FALSE
    /\ tickerC = FALSE
    /\ gcStopCh = FALSE
    /\ gcFlock = "free"

\* New(opts...) on a directory of its own: the options are applied, cache/ and
\* tmp/ are made, and gcRunner is started if f.maxBytes > 0
New(o) ==
    /\ Idle
    /\ opts = o
    /\ files = [q \in Paths |-> NoFile]
    /\ now = 0
    /\ committed = [k \in Keys |-> FALSE]
    /\ gcpc = "idle"
    /\ names = << >>
    /\ curBytes = 0
    /\ fih = << >>
    /\ keysToGc = << >>
    /\ bytesSoFar = 0
    /\ peer = IdleGc
    /\ runner = IF maxBytesOf(o) > 0 THEN "loop" ELSE "none"

\* the cache of the tests: New(WithMaxBytes(maxBytes), ...)
Init == New({maxBytes})

\* ------------------------------------------------------------- the kernel
\* open file descriptions follow the inode, not the name: an inode that loses
\* its name stays readable, with the data it had, by whoever holds it open.
FdsAfterUnlink(fds, path) ==
    [p \in Procs |->
        IF IsLive(fds[p]) /\ fds[p].path = path
        THEN Detached(files[path].data) ELSE fds[p]]

FdsAfterRename(fds, old, new) ==
    IF old = new THEN fds
    ELSE [p \in Procs |->
            IF IsLive(fds[p]) /\ fds[p].path = new THEN Detached(files[new].data)
            ELSE IF IsLive(fds[p]) /\ fds[p].path = old THEN Live(new)
            ELSE fds[p]]

\* rename(2): the inode at old replaces whatever is at new, in one step
Rename(old, new) ==
    IF old = new THEN files
    ELSE [files EXCEPT ![new] = files[old], ![old] = NoFile]

\* unlink(2)
Unlink(path) == [files EXCEPT ![path] = NoFile]

\* the bytes read(2) finds in an open file
FdData(d) == IF IsLive(d) THEN files[d.path].data ELSE d.data

\* ------------------------------------------------------------- history
\* a Set of k that returns nil, or a removal of cache/<k>, disturbs every Get of k
Disturb(k) == [p \in Procs |-> clean[p] /\ key[p] # k]

\* ------------------------------------------------------------- callers
\* a step of a caller thread: the gc goroutine stands where it stood
Caller ==
    /\ quiet' = NoQuiet
    /\ ran' = FALSE
    /\ UNCHANGED gcvars
    /\ UNCHANGED newvars
    /\ UNCHANGED seen

\* a call returns: the thread is idle again and its locals are dead
Return(p, err, out) ==
    /\ pc' = [pc EXCEPT ![p] = "idle"]
    /\ ret' = [ret EXCEPT ![p] = [err |-> err, out |-> out]]
    /\ src' = [src EXCEPT ![p] = << >>]
    /\ off' = [off EXCEPT ![p] = 0]
    /\ buf' = [buf EXCEPT ![p] = << >>]
    /\ fi' = [fi EXCEPT ![p] = 0]

\* os.OpenFile(tmpfile, O_WRONLY|O_CREATE|O_EXCL): a fresh, empty inode
NewFile == [data |-> << >>, atime |-> now, mtime |-> now]

\* Set, first half of atomicWriteFile: newAtomicFileWriter(filename, tmpfile).
\* o is where the environment lets it fail: the open, the flock, filepath.Abs.
newAtomicFileWriter(p) ==
    /\ pc[p] = "idle"
    /\ \E k \in Keys, v \in Vals, o \in {"ok", "open", "flock", "abs"} :
        LET tmp == tmppath(k)
            fn == filepath(k)
            opened == ~Exists(tmp) /\ o # "open"
            after == IF opened THEN [files EXCEPT ![tmp] = NewFile] ELSE files
        IN  /\ op' = [op EXCEPT ![p] = "Set"]
            /\ key' = [key EXCEPT ![p] = k]
            /\ writeErr' = [writeErr EXCEPT ![p] = FALSE]
            /\ files' = after
            /\ touched' = [touched EXCEPT ![p] = after[fn] # files[fn]]
            /\ IF opened /\ o = "ok"
               THEN /\ fd' = [fd EXCEPT ![p] = Live(tmp)]
                    /\ pc' = [pc EXCEPT ![p] = "Write"]
                    /\ ret' = [ret EXCEPT ![p] = NoRet]
                    /\ src' = [src EXCEPT ![p] = v]
                    /\ UNCHANGED <<off, buf, fi>>
               ELSE \* the error is returned as it is.  After a failed flock the
                    \* file is closed, after a failed Abs not even that; either
                    \* way it stays in tmp/ (the descriptor is lost to the program)
                    /\ fd' = [fd EXCEPT ![p] = NoFd]
                    /\ Return(p, IF ~opened /\ o # "open" THEN "EEXIST" ELSE "EIO", << >>)
    /\ clean' = [clean EXCEPT ![p] = FALSE]
    /\ UNCHANGED <<now, dst, committed, lastOk>>
    /\ Caller

\* w.f.Write of one more byte of src
WriteByte(d, b) ==
    IF IsLive(d)
    THEN [files EXCEPT ![d.path].data = Append(@, b), ![d.path].mtime = now]
    ELSE files

\* io.Copy(dst, src): the bytes reach the staging file one after the other, and
\* a write may fail (writeErr is set, atomicWriteFile goes on to Close)
Copy(p) ==
    /\ pc[p] = "Write"
    /\ \E ok \in BOOLEAN :
        LET fn == filepath(key[p])
            after == IF ok THEN WriteByte(fd[p], src[p][off[p] + 1]) ELSE files
        IN  /\ files' = after
            /\ fd' = [fd EXCEPT ![p] =
                        IF ok /\ ~IsLive(@) THEN Detached(Append(@.data, src[p][off[p] + 1]))
                        ELSE @]
            /\ off' = [off EXCEPT ![p] = IF ok THEN @ + 1 ELSE @]
            /\ writeErr' = [writeErr EXCEPT ![p] = ~ok]
            /\ pc' = [pc EXCEPT ![p] =
                        IF ok /\ off[p] + 1 < Len(src[p]) THEN "Write" ELSE "Close"]
            /\ touched' = [touched EXCEPT ![p] = @ \/ after[fn] # files[fn]]
    /\ UNCHANGED <<now, op, key, src, dst, buf, fi, ret, committed, lastOk, clean>>
    /\ Caller

\* the file the deferred os.Remove(w.f.Name()) of Close removes
\* (had it removed w.fn)
removedDest(k) == filepath(k)
removed(k) == tmppath(k)

\* (had Close renamed without looking at writeErr)
CloseErrBlind(o, werr, staged) ==
    IF o \in {"sync", "close"} THEN "EIO"
    ELSE IF ~staged THEN "ENOENT"
    ELSE IF o = "chmod" THEN "EIO"
    ELSE IF o = "rename" THEN "EIO"
    ELSE "rename"

\* the error atomicFileWriter.Close returns, o being the call the environment
\* lets fail; "rename" stands for the rename that is to be executed
CloseErr(o, werr, staged) ==
    IF o \in {"sync", "close"} THEN "EIO"
    ELSE IF ~staged THEN "ENOENT"
    ELSE IF o = "chmod" THEN "EIO"
    ELSE IF werr THEN "nil"
    ELSE IF o = "rename" THEN "EIO"
    ELSE "rename"

\* Set, second half of atomicWriteFile: dst.Close() and its deferred os.Remove
Close(p) ==
    /\ pc[p] = "Close"
    /\ \E o \in {"ok", "sync", "close", "chmod", "rename"} :
        LET k == key[p]
            tmp == tmppath(k)
            fn == filepath(k)
            e == CloseErr(o, writeErr[p], Exists(tmp))
            renamed == e = "rename"
            retErr == IF renamed THEN "nil" ELSE e
            remove == retErr # "nil" \/ writeErr[p]
            after == IF renamed THEN Rename(tmp, fn)
                     ELSE IF remove THEN Unlink(removed(k)) ELSE files
            fds == IF renamed THEN FdsAfterRename(fd, tmp, fn)
                   ELSE IF remove /\ Exists(removed(k)) THEN FdsAfterUnlink(fd, removed(k))
                   ELSE fd
        IN  /\ files' = after
            /\ fd' = [fds EXCEPT ![p] = NoFd]
            /\ committed' = [committed EXCEPT ![k] = @ \/ renamed]
            /\ touched' = [touched EXCEPT ![p] = @ \/ renamed \/ after[fn] # files[fn]]
            /\ lastOk' = IF retErr = "nil"
                         THEN [lastOk EXCEPT ![k] = src[p]]
                         ELSE lastOk
            /\ clean' = IF retErr = "nil" THEN Disturb(k) ELSE clean
            /\ Return(p, retErr, << >>)
    /\ UNCHANGED <<now, op, key, dst, writeErr>>
    /\ Caller

\* the error Get returns for the error of ioutil.ReadFile: os.IsNotExist(err)
\* (had it returned err as it is)
GetErrRaw(e) == e
GetErr(e) == IF e = "ENOENT" THEN "ErrNotFound" ELSE e

\* Get / GetBytes: ioutil.ReadFile(fp) opens the file
ReadFileOpen(p) ==
    /\ pc[p] = "idle"
    /\ \E k \in Keys, d \in Dsts, o \in {"Get", "GetBytes"} :
        /\ op' = [op EXCEPT ![p] = o]
        /\ key' = [key EXCEPT ![p] = k]
        /\ dst' = [dst EXCEPT ![p] = d]
        /\ clean' = [clean EXCEPT ![p] = TRUE]
        /\ IF Exists(filepath(k))
           THEN /\ fd' = [fd EXCEPT ![p] = Live(filepath(k))]
                /\ pc' = [pc EXCEPT ![p] = "Read"]
                /\ ret' = [ret EXCEPT ![p] = NoRet]
                /\ UNCHANGED <<src, off, buf, fi>>
           ELSE /\ Return(p, GetErr("ENOENT"), d)
                /\ UNCHANGED fd
    /\ writeErr' = [writeErr EXCEPT ![p] = FALSE]
    /\ touched' = [touched EXCEPT ![p] = FALSE]
    /\ UNCHANGED <<files, now, committed, lastOk>>
    /\ Caller

\* ... and reads it to the end; GetBytes appends and returns
ReadFileRead(p) ==
    /\ pc[p] = "Read"
    /\ fd' = [fd EXCEPT ![p] = NoFd]
    /\ IF op[p] = "GetBytes"
       THEN Return(p, "nil", dst[p] \o FdData(fd[p]))
       ELSE /\ buf' = [buf EXCEPT ![p] = FdData(fd[p])]
            /\ pc' = [pc EXCEPT ![p] = "Stat"]
            /\ UNCHANGED <<src, off, fi, ret>>
    /\ UNCHANGED <<files, now, op, key, dst, writeErr, committed, touched, lastOk, clean>>
    /\ Caller

\* Get: fi, err := os.Stat(fp)
Stat(p) ==
    /\ pc[p] = "Stat"
    /\ IF Exists(filepath(key[p]))
       THEN /\ fi' = [fi EXCEPT ![p] = files[filepath(key[p])].mtime]
            /\ pc' = [pc EXCEPT ![p] = "Chtimes"]
            /\ UNCHANGED <<src, off, buf, ret>>
       ELSE Return(p, "ENOENT", dst[p])
    /\ UNCHANGED <<files, now, op, key, dst, fd, writeErr, committed, touched, lastOk, clean>>
    /\ Caller

\* Get: os.Chtimes(fp, time.Now(), fi.ModTime()); dst = append(dst, src...)
Chtimes(p) ==
    /\ pc[p] = "Chtimes"
    /\ LET fp == filepath(key[p])
       IN IF Exists(fp)
          THEN /\ files' = [files EXCEPT ![fp].atime = now, ![fp].mtime = fi[p]]
               /\ Return(p, "nil", dst[p] \o buf[p])
          ELSE /\ Return(p, "ENOENT", dst[p])
               /\ UNCHANGED files
    /\ UNCHANGED <<now, op, key, dst, fd, writeErr, committed, touched, lastOk, clean>>
    /\ Caller

\* Has: os.Stat(f.filepath(key))
Has(p) ==
    /\ pc[p] = "idle"
    /\ \E k \in Keys :
        /\ op' = [op EXCEPT ![p] = "Has"]
        /\ key' = [key EXCEPT ![p] = k]
        /\ ret' = [ret EXCEPT ![p] = [err |-> "nil", out |-> Exists(filepath(k))]]
    /\ clean' = [clean EXCEPT ![p] = FALSE]
    /\ writeErr' = [writeErr EXCEPT ![p] = FALSE]
    /\ touched' = [touched EXCEPT ![p] = FALSE]
    /\ UNCHANGED <<files, now, pc, src, dst, fd, off, buf, fi, committed, lastOk>>
    /\ Caller

\* FsCache.Del: syscall.Unlink(f.filepath(key))
Del(p) ==
    /\ pc[p] = "idle"
    /\ \E k \in Keys :
        /\ op' = [op EXCEPT ![p] = "Del"]
        /\ key' = [key EXCEPT ![p] = k]
        /\ files' = Unlink(filepath(k))
        /\ fd' = IF Exists(filepath(k)) THEN FdsAfterUnlink(fd, filepath(k)) ELSE fd
        /\ clean' = [Disturb(k) EXCEPT ![p] = FALSE]
        /\ lastOk' = [lastOk EXCEPT ![k] = << >>]
    /\ ret' = [ret EXCEPT ![p] = [err |-> "nil", out |-> << >>]]
    /\ writeErr' = [writeErr EXCEPT ![p] = FALSE]
    /\ touched' = [touched EXCEPT ![p] = FALSE]
    /\ UNCHANGED <<now, pc, src, dst, off, buf, fi, committed>>
    /\ Caller

\* the clock moves on
Tick ==
    /\ now < MaxTime
    /\ now' = now + 1
    /\ UNCHANGED <<files, pc, op, key, src, dst, fd, off, writeErr, buf, fi, ret,
                   committed, touched, lastOk, clean, quiet, seen, ran>>
    /\ UNCHANGED gcvars
    /\ UNCHANGED newvars

\* ------------------------------------------------------------- heap.go
\* fileInfoHeap.Less: by access time
\* (had it put the latest access first)
LessLatest(h, i, j) == h[i].atime > h[j].atime
Less(h, i, j) == h[i].atime < h[j].atime

\* fileInfoHeap.Swap
Swap(h, i, j) == [h EXCEPT ![i] = h[j], ![j] = h[i]]

\* container/heap up(j), on indices from 1
RECURSIVE up(_, _)
up(h, j) ==
    IF j = 1 THEN h
    ELSE LET i == j \div 2
         IN IF ~Less(h, j, i) THEN h ELSE up(Swap(h, i, j), i)

\* container/heap down(i0, n), on indices from 1
RECURSIVE down(_, _, _)
down(h, i, n) ==
    LET j1 == 2 * i
        j2 == j1 + 1
        j == IF j2 <= n /\ Less(h, j2, j1) THEN j2 ELSE j1
    IN IF j1 > n THEN h
       ELSE IF ~Less(h, j, i) THEN h
       ELSE down(Swap(h, i, j), j, n)

\* heap.Push(&f.fih, info)
HeapPush(h, x) == up(Append(h, x), Len(h) + 1)

\* heap.Pop(&f.fih): the FileInfo popped and the heap that is left
HeapPop(h) ==
    LET n == Len(h)
        r == down(Swap(h, 1, n), 1, n - 1)
    IN [x |-> r[n], h |-> SubSeq(r, 1, n - 1)]

\* ------------------------------------------------------------- gc
\* the names of a directory, sorted, as filepath.Walk reads them
RECURSIVE Sorted(_)
Sorted(S) ==
    IF S = {} THEN << >>
    ELSE LET m == CHOOSE x \in S : \A y \in S : x <= y
         IN <<m>> \o Sorted(S \ {m})

readDirNames == Sorted({k \in Keys : Exists(filepath(k))})

\* the os.FileInfo of cache/<k>
FileInfo(k) ==
    [name |-> k, size |-> Len(files[filepath(k)].data), atime |-> files[filepath(k)].atime]

\* for bytesSoFar < needGcBytes { fi := heap.Pop(&f.fih) ... }; heap.Pop of an
\* empty heap panics
\* (had it popped one entry and no more)
RECURSIVE PopLoopOnce(_, _, _, _)
PopLoopOnce(h, needGcBytes, soFar, keys) ==
    IF soFar >= needGcBytes \/ keys # << >>
    THEN [fih |-> h, keys |-> keys, bytes |-> soFar, panic |-> FALSE]
    ELSE IF h = << >>
    THEN [fih |-> h, keys |-> keys, bytes |-> soFar, panic |-> TRUE]
    ELSE LET r == HeapPop(h)
         IN PopLoopOnce(r.h, needGcBytes, soFar + r.x.size, Append(keys, r.x.name))

RECURSIVE PopLoop(_, _, _, _)
PopLoop(h, needGcBytes, soFar, keys) ==
    IF soFar >= needGcBytes
    THEN [fih |-> h, keys |-> keys, bytes |-> soFar, panic |-> FALSE]
    ELSE IF h = << >>
    THEN [fih |-> h, keys |-> keys, bytes |-> soFar, panic |-> TRUE]
    ELSE LET r == HeapPop(h)
         IN PopLoop(r.h, needGcBytes, soFar + r.x.size, Append(keys, r.x.name))

\* gc returns; its locals, and the heap the next cycle resets, are dead
GcReturn ==
    /\ gcpc' = "idle"
    /\ names' = << >>
    /\ curBytes' = 0
    /\ fih' = << >>
    /\ keysToGc' = << >>
    /\ bytesSoFar' = 0

\* gc once the walk is over: the decision, and the keys to remove
AfterWalk(cur, h) ==
    IF cur <= fmaxBytes THEN GcReturn
    ELSE LET r == PopLoop(h, cur - fmaxBytes, 0, << >>)
         IN /\ gcpc' = IF r.panic THEN "panic" ELSE "Remove"
            /\ names' = << >>
            /\ curBytes' = cur
            /\ fih' = r.fih
            /\ keysToGc' = r.keys
            /\ bytesSoFar' = r.bytes

\* nothing is scanned
NoneSeen == [k \in Keys |-> NoFile]

\* gcRunner takes a tick: gc begins, filepath.Walk reads the names of cache/
GcStart ==
    /\ gcpc = "idle"
    /\ runner = "loop"
    /\ quiet' = [k \in Keys |-> files[filepath(k)]]
    /\ seen' = NoneSeen
    /\ IF readDirNames = << >>
       THEN AfterWalk(0, << >>)
       ELSE /\ gcpc' = "Walk"
            /\ names' = readDirNames
            /\ curBytes' = 0
            /\ fih' = << >>
            /\ keysToGc' = << >>
            /\ bytesSoFar' = 0
    /\ ran' = IF gcpc' = "idle" THEN TRUE ELSE ran
    /\ UNCHANGED <<files, now, pc, op, key, src, dst, fd, off, writeErr, buf, fi, ret,
                   committed, touched, lastOk, clean>>
    /\ UNCHANGED <<opts, runner, gcStopCh, gcFlock, peer>>

\* filepath.Walk visits the next name: lstat, then the callback; after the last
\* name gc decides.  A name that is gone by now ends the walk with an error.
GcLstat ==
    /\ gcpc = "Walk"
    /\ LET k == Head(names)
       IN IF Exists(filepath(k))
          THEN LET cur == curBytes + FileInfo(k).size
                   h == HeapPush(fih, FileInfo(k))
               IN IF Tail(names) = << >>
                  THEN AfterWalk(cur, h)
                  ELSE /\ names' = Tail(names)
                       /\ curBytes' = cur
                       /\ fih' = h
                       /\ UNCHANGED <<gcpc, keysToGc, bytesSoFar>>
          ELSE GcReturn
    /\ seen' = IF gcpc' = "idle" THEN NoneSeen
               ELSE [seen EXCEPT ![Head(names)] = files[filepath(Head(names))]]
    /\ ran' = IF gcpc' = "idle"
              THEN quiet # NoQuiet /\ Exists(filepath(Head(names)))
              ELSE ran
    /\ UNCHANGED <<files, now, pc, op, key, src, dst, fd, off, writeErr, buf, fi, ret,
                   committed, touched, lastOk, clean, quiet>>
    /\ UNCHANGED newvars

\* ------------------------------------------------------------- gcRunner
\* what the callers and the directory hold, and the history of gc
callvars == <<files, now, pc, op, key, src, dst, fd, off, writeErr, buf, fi, ret,
              committed, touched, lastOk, clean>>

\* the ticker sends a tick: ticker.C holds one, the ticks it has no room for
\* are dropped
TickerFire ==
    /\ runner = "loop"
    /\ ~tickerC
    /\ tickerC' = TRUE
    /\ UNCHANGED <<opts, runner, gcStopCh, gcFlock, peer>>
    /\ UNCHANGED <<callvars, gcvars, quiet, seen, ran>>

\* the owner of the cache closes gcStopCh
CloseStopCh ==
    /\ ~gcStopCh
    /\ gcStopCh' = TRUE
    /\ UNCHANGED <<opts, runner, tickerC, gcFlock, peer>>
    /\ UNCHANGED <<callvars, gcvars, quiet, seen, ran>>

\* gcRunner, select { case <-f.gcStopCh: return }.  Of the cases that are ready
\* select takes any one.
SelectStop ==
    /\ runner = "loop"
    /\ gcpc = "idle"
    /\ gcStopCh
    /\ runner' = "exited"
    /\ UNCHANGED <<opts, tickerC, gcStopCh, gcFlock, peer>>
    /\ UNCHANGED <<callvars, gcvars, quiet, seen, ran>>

\* gcRunner, select { case <-ticker.C: f.gc() }
SelectTick ==
    /\ tickerC
    /\ tickerC' = FALSE
    /\ GcStart

\* os.Remove(f.filepath(k)) of the next key; an error ends the cycle
GcRemove ==
    /\ gcpc = "Remove"
    /\ LET k == Head(keysToGc)
       IN IF Exists(filepath(k))
          THEN /\ files' = Unlink(filepath(k))
               /\ fd' = FdsAfterUnlink(fd, filepath(k))
               /\ lastOk' = [lastOk EXCEPT ![k] = << >>]
               /\ clean' = Disturb(k)
               /\ IF Tail(keysToGc) = << >>
                  THEN GcReturn
                  ELSE /\ keysToGc' = Tail(keysToGc)
                       /\ UNCHANGED <<gcpc, names, curBytes, fih, bytesSoFar>>
          ELSE /\ GcReturn
               /\ UNCHANGED <<files, fd, lastOk, clean>>
    /\ seen' = IF gcpc' = "idle" THEN NoneSeen ELSE seen
    /\ ran' = IF gcpc' = "idle"
              THEN quiet # NoQuiet /\ Exists(filepath(Head(keysToGc)))
              ELSE ran
    /\ UNCHANGED <<now, pc, op, key, src, dst, off, writeErr, buf, fi, ret,
                   committed, touched, quiet>>
    /\ UNCHANGED newvars

\* ------------------------------------------------------------- two processes
\* The other process on the directory runs the same code; of its state only the
\* gc goroutine is kept (its callers are callers like any other).  Yield hands
\* the processor to it: its gc goroutine becomes the one the gc actions move.
\* The history of gc is that of cycles no step of the other process falls into.
Yield ==
    /\ peer' = [gcpc |-> gcpc, names |-> names, curBytes |-> curBytes, fih |-> fih,
                keysToGc |-> keysToGc, bytesSoFar |-> bytesSoFar]
    /\ gcpc' = peer.gcpc
    /\ names' = peer.names
    /\ curBytes' = peer.curBytes
    /\ fih' = peer.fih
    /\ keysToGc' = peer.keysToGc
    /\ bytesSoFar' = peer.bytesSoFar
    /\ gcFlock' = IF gcFlock = "mine" THEN "theirs"
                  ELSE IF gcFlock = "theirs" THEN "mine" ELSE "free"
    /\ quiet' = NoQuiet
    /\ seen' = NoneSeen
    /\ ran' = FALSE
    /\ UNCHANGED <<opts, runner, tickerC, gcStopCh>>
    /\ UNCHANGED callvars

\* ------------------------------------------------------------- FsCache
\* st_size of the directory cache/, in the unit the values are sized in
DirSize == 1

\* the os.FileInfo of cache/ itself: filepath.Walk hands the root to the walk
\* function first, and FsCache.init does not skip directories.  Its name is
\* the name of no key.
DirInfo(atime) == [name |-> 0, size |-> DirSize, atime |-> atime]

\* FsCache.init: the walk over cache/, fc.curBytes += info.Size() and
\* heap.Push(&fc.fih, info) for everything it visits
RECURSIVE WalkAll(_, _, _)
WalkAll(ns, cur, h) ==
    IF ns = << >> THEN [curBytes |-> cur, fih |-> h]
    ELSE WalkAll(Tail(ns), cur + FileInfo(Head(ns)).size, HeapPush(h, FileInfo(Head(ns))))

init(atime) == WalkAll(readDirNames, DirSize, HeapPush(<< >>, DirInfo(atime)))

\* FsCache.gc up to its removals: TryLock (a lock that is held ends the tick),
\* the decision on fc.curBytes, the pop loop.  A panic runs the deferred Unlock.
FsGcStart ==
    /\ gcpc = "idle"
    /\ runner = "loop"
    /\ IF gcFlock # "free"
       THEN UNCHANGED <<gcvars, gcFlock, quiet, ran>>
       ELSE /\ quiet' = [k \in Keys |-> files[filepath(k)]]
            /\ IF curBytes <= fmaxBytes
               THEN /\ ran' = TRUE
                    /\ UNCHANGED <<gcvars, gcFlock>>
               ELSE LET r == PopLoop(fih, curBytes - fmaxBytes, 0, << >>)
                    IN /\ gcpc' = IF r.panic THEN "panic" ELSE "FsRemove"
                       /\ fih' = r.fih
                       /\ keysToGc' = r.keys
                       /\ bytesSoFar' = r.bytes
                       /\ gcFlock' = IF r.panic THEN "free" ELSE "mine"
                       /\ UNCHANGED <<names, curBytes, ran>>
    /\ UNCHANGED <<opts, runner, tickerC, gcStopCh, peer, seen>>
    /\ UNCHANGED callvars

\* FsCache.gc: os.Remove(fc.filepath(k)) of the next key; an error ends the
\* cycle; after the last key fc.curBytes -= bytesSoFar.  Unlock on return.
FsGcRemove ==
    /\ gcpc = "FsRemove"
    /\ LET k == Head(keysToGc)
           ok == k \in Keys /\ Exists(filepath(k))
       IN /\ IF ok
             THEN /\ files' = Unlink(filepath(k))
                  /\ fd' = FdsAfterUnlink(fd, filepath(k))
                  /\ lastOk' = [lastOk EXCEPT ![k] = << >>]
                  /\ clean' = Disturb(k)
             ELSE UNCHANGED <<files, fd, lastOk, clean>>
          /\ IF ok /\ Tail(keysToGc) # << >>
             THEN /\ keysToGc' = Tail(keysToGc)
                  /\ UNCHANGED <<gcpc, curBytes, bytesSoFar, gcFlock>>
             ELSE /\ gcpc' = "idle"
                  /\ keysToGc' = << >>
                  /\ curBytes' = IF ok THEN curBytes - bytesSoFar ELSE curBytes
                  /\ bytesSoFar' = 0
                  /\ gcFlock' = "free"
          /\ ran' = IF gcpc' = "idle" THEN quiet # NoQuiet /\ ok ELSE ran
    /\ UNCHANGED <<names, fih, quiet, seen>>
    /\ UNCHANGED <<now, pc, op, key, src, dst, off, writeErr, buf, fi, ret,
                   committed, touched>>
    /\ UNCHANGED <<opts, runner, tickerC, gcStopCh, peer>>

\* ------------------------------------------------------------- specifications
\* Spec: the caller threads race on the keys of IOKeys while the gc goroutine
\* runs; the clock stands still.
IOKeys == {1}

Next ==
    \/ \E p \in Procs : newAtomicFileWriter(p) /\ key'[p] \in IOKeys
    \/ \E p \in Procs : Copy(p)
    \/ \E p \in Procs : Close(p)
    \/ \E p \in Procs : ReadFileOpen(p) /\ key'[p] \in IOKeys
    \/ \E p \in Procs : ReadFileRead(p)
    \/ \E p \in Procs : Stat(p)
    \/ \E p \in Procs : Chtimes(p)
    \/ \E p \in Procs : Has(p) /\ key'[p] \in IOKeys
    \/ \E p \in Procs : Del(p) /\ key'[p] \in IOKeys
    \/ GcStart /\ UNCHANGED tickerC
    \/ GcLstat
    \/ GcRemove

Spec == Init /\ [][Next]_vars

\* SpecGc: one thread calls Set, Get and Has on every key, one call at a time and
\* never during a gc cycle; no system call fails; the clock runs.
Alone == gcpc = "idle" /\ \A p \in Procs : pc[p] = "idle"

NextGc ==
    \/ Alone /\ newAtomicFileWriter(1) /\ pc'[1] = "Write"
    \/ Copy(1) /\ ~writeErr'[1]
    \/ Close(1) /\ ret'[1].err = "nil"
    \/ Alone /\ ReadFileOpen(1) /\ op'[1] = "Get"
    \/ ReadFileRead(1)
    \/ Stat(1)
    \/ Chtimes(1)
    \/ Alone /\ Has(1)
    \/ Alone /\ GcStart /\ UNCHANGED tickerC
    \/ GcLstat
    \/ GcRemove
    \/ Tick

SpecGc == Init /\ [][NextGc]_vars

\* SpecRace: the caller threads race on the keys of IOKeys with Set and Get while
\* the gc goroutine runs and the clock runs; no system call fails but for what
\* the directory holds (ENOENT, EEXIST).
NextRace ==
    \/ \E p \in Procs :
        /\ newAtomicFileWriter(p)
        /\ key'[p] \in IOKeys
        /\ IF pc'[p] = "Write" THEN TRUE ELSE ret'[p].err = "EEXIST"
    \/ \E p \in Procs : Copy(p) /\ ~writeErr'[p]
    \/ \E p \in Procs : Close(p) /\ ret'[p].err = "nil"
    \/ \E p \in Procs : ReadFileOpen(p) /\ key'[p] \in IOKeys /\ op'[p] = "Get"
    \/ \E p \in Procs : ReadFileRead(p)
    \/ \E p \in Procs : Stat(p)
    \/ \E p \in Procs : Chtimes(p)
    \/ GcStart /\ UNCHANGED tickerC
    \/ GcLstat
    \/ GcRemove
    \/ Tick

SpecRace == Init /\ [][NextRace]_vars

\* SpecNew: New with no WithMaxBytes, with WithMaxBytes(0) and with the budget
\* of the tests; gcRunner with its ticker and its stop channel; one thread
\* calls Set, one call at a time, between gc cycles.
InitNew == \E o \in {{}, {0}, {maxBytes}} : New(o)

NextNew ==
    \/ Alone /\ newAtomicFileWriter(1) /\ pc'[1] = "Write"
    \/ Copy(1) /\ ~writeErr'[1]
    \/ Close(1) /\ ret'[1].err = "nil"
    \/ TickerFire
    \/ CloseStopCh
    \/ SelectStop
    \/ SelectTick
    \/ GcLstat
    \/ GcRemove

SpecNew == InitNew /\ [][NextNew]_vars

\* SpecMp: two processes run Cache on one directory; one thread calls Set, one
\* call at a time.
NextMp ==
    \/ Alone /\ newAtomicFileWriter(1) /\ pc'[1] = "Write"
    \/ Copy(1) /\ ~writeErr'[1]
    \/ Close(1) /\ ret'[1].err = "nil"
    \/ GcStart /\ UNCHANGED tickerC
    \/ GcLstat
    \/ GcRemove
    \/ Yield

SpecMp == Init /\ [][NextMp]_vars

\* SpecFs: two processes have made an FsCache, New(WithMaxBytes(maxBytes)), on a
\* directory that holds the entries of an earlier run; one thread calls Set,
\* GetBytes and Del, one call at a time.
InitFs ==
    /\ Idle
    /\ opts = {maxBytes}
    /\ now = MaxTime
    /\ \E ents \in [Keys -> {NoFile} \cup [data : Vals, atime : 0..MaxTime, mtime : {0}]] :
        /\ files = [q \in Paths |-> IF q[1] = "cache" THEN ents[q[2]] ELSE NoFile]
        /\ committed = [k \in Keys |-> IsFile(ents[k])]
    /\ \E atime \in 0..MaxTime :
        /\ curBytes = init(atime).curBytes
        /\ fih = init(atime).fih
    /\ gcpc = "idle"
    /\ names = << >>
    /\ keysToGc = << >>
    /\ bytesSoFar = 0
    /\ peer = [IdleGc EXCEPT !.curBytes = curBytes, !.fih = fih]
    /\ runner = "loop"

NextFs ==
    \/ Alone /\ newAtomicFileWriter(1) /\ pc'[1] = "Write"
    \/ Copy(1) /\ ~writeErr'[1]
    \/ Close(1) /\ ret'[1].err = "nil"
    \/ Alone /\ ReadFileOpen(1) /\ op'[1] = "GetBytes"
    \/ ReadFileRead(1)
    \/ Alone /\ Del(1)
    \/ FsGcStart
    \/ FsGcRemove
    \/ Yield

SpecFs == InitFs /\ [][NextFs]_vars

\* ------------------------------------------------------------- properties
\* a Get or GetBytes of thread p has returned
Got(p) == pc[p] = "idle" /\ op[p] \in {"Get", "GetBytes"} /\ ret[p] # NoRet

\* a Set of thread p has returned
SetDone(p) == pc[p] = "idle" /\ op[p] = "Set" /\ ret[p] # NoRet

\* a Set of thread p is between its open and its Close
Setting(p) == pc[p] \in {"Write", "Close"}

\* C1: round trip.  A Get(k) that runs after Set(k, v) returned nil, with no
\* removal of k and no other Set(k, _) returning nil since, returns nil and dst
\* with exactly v appended.
C1_RoundTrip ==
    \A p \in Procs :
        (Got(p) /\ clean[p] /\ lastOk[key[p]] # << >>)
            => (ret[p].err = "nil" /\ ret[p].out = dst[p] \o lastOk[key[p]])

\* C2: overwrite.  After Set(k, v1) and then Set(k, v2) returned nil, with no
\* removal of k in between, what a Get(k) reads is v2: it never returns an older
\* value.
C2_Overwrite ==
    \A p \in Procs :
        (Got(p) /\ clean[p] /\ lastOk[key[p]] # << >> /\ ret[p].err = "nil")
            => ret[p].out = dst[p] \o lastOk[key[p]]

\* C3: miss.  A Get of a key onto which no Set has ever committed returns
\* ErrNotFound and the dst it was passed.
C3_Miss ==
    \A p \in Procs :
        (Got(p) /\ ~committed[key[p]])
            => (ret[p].err = "ErrNotFound" /\ ret[p].out = dst[p])

\* C3 happens: a Get of a never committed key has returned, while a Set of that
\* key has its staging file written
C3_Witness ==
    \E p, q \in Procs :
        /\ Got(p) /\ ~committed[key[p]] /\ ret[p].err = "ErrNotFound"
        /\ pc[q] = "Close" /\ key[q] = key[p] /\ ~writeErr[q]

\* C4: existence.  Has(k) becomes true only by the rename of a Set(k, _), and
\* becomes false only by the gc cycle removing k.
C4_Existence ==
    [][\A k \in Keys :
        LET was == IsFile(files[filepath(k)])
            is == IsFile(files'[filepath(k)])
        IN /\ (~was /\ is) =>
                \E p \in Procs : pc[p] = "Close" /\ key[p] = k /\ pc'[p] = "idle"
           /\ (was /\ ~is) =>
                (gcpc = "Remove" /\ Head(keysToGc) = k /\ gcpc' \in {"Remove", "idle"})
      ]_vars

\* C5: no partial reads.  Every Get that returns nil returns dst with the whole
\* content of one Set of that key appended: the key has been committed and the
\* bytes appended are one complete value.
C5_NoPartialRead ==
    \A p \in Procs :
        (Got(p) /\ ret[p].err = "nil")
            => (committed[key[p]] /\ \E v \in Vals : ret[p].out = dst[p] \o v)

\* C5 happens: a Get has read a value and is about to return it while a Set of
\* the same key has written a part of another value to its staging file
C5_Witness ==
    \E p, q \in Procs :
        /\ pc[p] = "Chtimes" /\ buf[p] \in Vals
        /\ pc[q] = "Write" /\ key[q] = key[p] /\ src[q] # buf[p]
        /\ off[q] > 0 /\ off[q] < Len(src[q])

\* C6: staging isolation.  A Set that has not executed its rename has changed
\* nothing at cache/<key>; what is at cache/<key>, which is all that Has and Get
\* look at, is absent or the whole content of a committed Set.
C6_StagingIsolation ==
    /\ \A p \in Procs : Setting(p) => ~touched[p]
    /\ \A k \in Keys :
        Exists(filepath(k)) => (committed[k] /\ files[filepath(k)].data \in Vals)

\* C6 happens: a Set has written all of its value to the staging file, the key
\* was never committed, and a Has of that key has returned false
C6_Witness ==
    \E p, q \in Procs :
        /\ pc[p] = "Close" /\ ~writeErr[p]
        /\ Exists(tmppath(key[p])) /\ files[tmppath(key[p])].data = src[p]
        /\ ~committed[key[p]] /\ ~Exists(filepath(key[p]))
        /\ pc[q] = "idle" /\ op[q] = "Has" /\ key[q] = key[p] /\ ret[q].out = FALSE

\* C7: a Set whose streaming into the staging file failed returns an error: Set
\* returns nil only if its rename has executed.
C7_SetSurfacesFailure ==
    \A p \in Procs :
        (SetDone(p) /\ ret[p].err = "nil") => (~writeErr[p] /\ touched[p])

\* C8: a Set that failed (it returned an error, or its streaming failed) has
\* changed nothing at cache/<key>: its rename has not taken effect and no other
\* step of it touched the committed entry.
C8_DestUntouched ==
    \A p \in Procs :
        (SetDone(p) /\ (ret[p].err # "nil" \/ writeErr[p])) => ~touched[p]

\* C8 happens: a Set of a key that holds a committed value has failed after its
\* streaming went through (in sync, close, chmod or rename)
C8_Witness ==
    \E p \in Procs :
        /\ SetDone(p) /\ ret[p].err = "EIO" /\ ~writeErr[p]
        /\ Exists(filepath(key[p]))

\* C9: staging files never leak.  A file at tmp/<key> belongs to a Set of that
\* key that is in flight.
C9_NoStagingLeak ==
    \A k \in Keys :
        Exists(tmppath(k)) => \E p \in Procs : Setting(p) /\ key[p] = k

\* the entries of a snapshot of cache/, and their bytes
Entries(q) == {k \in Keys : IsFile(q[k])}

RECURSIVE Bytes(_, _)
Bytes(q, S) ==
    IF S = {} THEN 0
    ELSE LET k == CHOOSE x \in S : TRUE
         IN Len(q[k].data) + Bytes(q, S \ {k})

\* the entries of snapshot q that are gone now
Deleted(q) == {k \in Entries(q) : ~Exists(filepath(k))}

\* D is a shortest prefix of the entries of q, by ascending access time, of at
\* least need bytes
LruPrefix(q, D, need) ==
    /\ Bytes(q, D) >= need
    /\ \A d \in D : \A e \in Entries(q) \ D : q[d].atime <= q[e].atime
    /\ \E d \in D :
        /\ \A x \in D : q[x].atime <= q[d].atime
        /\ Bytes(q, D) - Len(q[d].data) < need

\* C10: eviction is the LRU prefix.  A gc cycle that ran with no caller step
\* in between has deleted nothing if the entries it began with were within
\* maxBytes; otherwise it has deleted exactly a shortest prefix of them, in
\* ascending access time, of at least curBytes - maxBytes bytes.  Every other
\* entry is there as it was.
C10_LruPrefix ==
    (gcpc = "idle" /\ quiet # NoQuiet) =>
        LET S == Entries(quiet)
            cur == Bytes(quiet, S)
            D == Deleted(quiet)
        IN /\ \A k \in Keys \ D : files[filepath(k)] = quiet[k]
           /\ IF cur <= fmaxBytes THEN D = {} ELSE LruPrefix(quiet, D, cur - fmaxBytes)

\* C10 happens: a cycle has deleted an entry and kept one that was written no
\* later but read (its access time refreshed by Get) after
C10_Witness ==
    /\ gcpc = "idle" /\ quiet # NoQuiet
    /\ \E d \in Deleted(quiet) : \E e \in Entries(quiet) \ Deleted(quiet) :
        /\ quiet[e].mtime <= quiet[d].mtime
        /\ quiet[e].atime > quiet[d].atime
        /\ quiet[e].atime > quiet[e].mtime

Disk == [k \in Keys |-> files[filepath(k)]]

\* C11: budget is restored by a cycle.  When a gc cycle has run to its end with
\* no failed deletion and no step of a caller since it began, the entries on
\* disk take up at most maxBytes.
C11_BudgetRestored ==
    (gcpc = "idle" /\ ran) => Bytes(Disk, Entries(Disk)) <= fmaxBytes

\* C13: unlimited budget disables reclamation.  In a cache made with
\* WithMaxBytes(0), or with no WithMaxBytes at all, gcRunner is not started and
\* no gc cycle ever runs.
C13_UnlimitedNoCycle ==
    (opts = {} \/ opts = {0}) => (gcpc = "idle" /\ quiet = NoQuiet /\ ~ran)

\* C14: cross-process exclusion of reclamation.  Of the processes on one cache
\* directory at most one is inside a gc cycle.
C14_OneCycle ==
    ~(gcpc \notin {"idle", "panic"} /\ peer.gcpc \notin {"idle", "panic"})

\* C15: cancellation.  Once gcStopCh is closed gcRunner takes no tick: no gc
\* cycle begins, whether or not a tick waits in ticker.C.
C15_NoCycleAfterStop ==
    [][gcStopCh => ~(tickerC /\ ~tickerC')]_vars

\* C16: concurrent writers of one key.  A Set that overlaps another Set of the
\* same key gets a staging file of its own and completes: it does not fail on
\* the staging file of the other.
C16_ConcurrentWriters ==
    \A p, q \in Procs :
        ~ /\ p # q
          /\ SetDone(p) /\ ret[p].err = "EEXIST"
          /\ Setting(q) /\ key[q] = key[p]

\* C17: a failed deletion is never fatal.  No gc cycle pops from an empty heap
\* (a panic, which ends the process).
C17_NoPanic ==
    gcpc # "panic" /\ peer.gcpc # "panic"

\* C18: Get refreshes only the access time.  The Chtimes of a Get that returns
\* nil leaves the modification time of the entry at cache/<key> as it is and
\* sets its access time to the time of the Get.
C18_AtimeOnly ==
    [][\A p \in Procs :
        (pc[p] = "Chtimes" /\ pc'[p] = "idle" /\ ret'[p].err = "nil") =>
            /\ files'[filepath(key[p])].mtime = files[filepath(key[p])].mtime
            /\ files'[filepath(key[p])].atime = now
      ]_vars

\* C19: a gc cycle deletes only what it scanned.  The entry a cycle removes is
\* the entry its walk recorded under that key: same content, same access time.
C19_OnlyScanned ==
    [][(/\ gcpc = "Remove"
        /\ Exists(filepath(Head(keysToGc)))
        /\ ~IsFile(files'[filepath(Head(keysToGc))]))
            => files[filepath(Head(keysToGc))] = seen[Head(keysToGc)]
      ]_vars

\* C20: Get has two outcomes.  A Get returns nil, or ErrNotFound with the dst it
\* was passed; it returns no other error.
C20_TwoOutcomes ==
    \A p \in Procs :
        (Got(p) /\ op[p] = "Get") =>
            \/ ret[p].err = "nil"
            \/ ret[p].err = "ErrNotFound" /\ ret[p].out = dst[p]

====
